---- MODULE Spec2Model ----
(***************************************************************************)
(* Model of the two load balancers of the repository:                      *)
(*   docker/managed/smart-lb/app.py   (adaptive, least queue depth)        *)
(*   docker/baseline/simple-lb/app.py (round-robin baseline)               *)
(***************************************************************************)
EXTENDS Integers, Sequences, FiniteSets, TLC

\* ------------------------------------------------------------------ bounds
\* Largest configured backend list (VLLM_ENDPOINTS) that is explored.
MaxEndpoints == 7
\* Most calls of the adaptive selector in one behaviour.
MaxCalls == 3
\* Most calls of the round-robin selector in one behaviour.
MaxRoundRobinCalls == 8
\* Number of inbound requests handled concurrently.
MaxRequests == 1
\* Largest backend list the poller is explored with.
MaxPolledEndpoints == 2
\* The clock stops advancing at this reading.
MaxClock == 1

\* ------------------------------------------------------- program constants
\* float('inf'): the queue depth of an unknown / unreachable backend.
INF == -1
\* The model registry indexes endpoints[0] .. endpoints[5].
RegistryEndpoints == 6
\* candidates of an unregistered model: self.endpoints[:2]
DefaultCandidates == 2

\* ------------------------------------------------------------------ values
\* Backend addresses, in the order they may appear in VLLM_ENDPOINTS.
AddressPool == <<"e1", "e2", "e3", "e4", "e5", "e6", "e7", "e8", "e9", "e10">>

\* The model argument of a selector call: None, the empty string, the three
\* model names of the registry, and a name that is in no registry.
NoneArg == "<None>"
Llama8B == "meta-llama/Llama-3.1-8B-Instruct"
Qwen7B == "Qwen/Qwen2.5-7B-Instruct"
Llama70B == "meta-llama/Llama-3.3-70B-Instruct"
OtherModel == "other/unregistered-model"
RegisteredModels == {Llama8B, Qwen7B, Llama70B}
ModelArgs == {NoneArg, "", OtherModel} \cup RegisteredModels

\* Python truthiness of the model argument (`if model:`).
Truthy(model) == model \notin {NoneArg, ""}

\* Outcome of a call that raised instead of returning.
IndexError == "IndexError"

\* Queue lengths a backend reports on its /metrics surface.
QueueDepths == {0, 1, 2}

\* The two load balancers.
Managed == "managed"
Baseline == "baseline"

\* The name under which the baseline's global iterator is logged.
GlobalCursor == "<global>"
Cursors == RegisteredModels \cup {GlobalCursor}

VARIABLES
    variant,            \* which load balancer the process runs
    endpoints,          \* VLLM_ENDPOINTS: the configured backend list
    endpoint_metrics,   \* managed: the Load Cache, address -> sample
    model_iterators,    \* baseline: model -> items its cycle() has yielded, mod length
    global_iterator,    \* baseline: items cycle(endpoints) has yielded, mod length
    selected,           \* the last selector call: [model, result]
    ncalls,             \* number of selector calls made so far
    returned,           \* baseline: per iterator, the addresses it has returned
    requests,           \* the inbound requests: id -> state of its proxy_request call
    pollPc,             \* managed: where metrics_poller stands
    tasks,              \* managed: the scrapes of the poller's current tick
    clock,              \* time.time()
    down,               \* the backends that are unreachable
    observed            \* the answer of the last health or metrics call

\* The poller's own state, and the environment it scrapes.
pollerVars == <<pollPc, tasks, clock, down>>

vars == <<variant, endpoints, endpoint_metrics, model_iterators, global_iterator,
          selected, ncalls, returned, requests, pollerVars, observed>>

\* No health or metrics call has been answered yet.
NoObservation == [call |-> "none"]

\* The state of the variant that is not running.
NoCache == <<>>
NoIterators == [m \in RegisteredModels |-> 0]
NoReturns == [c \in Cursors |-> <<>>]

\* ------------------------------------------------------ requests, replies
RequestIds == 1..MaxRequests

\* The inbound body: text that is not JSON, JSON that is not an object, or an
\* object with its "model" and "stream" members ("absent" when it has none).
StreamAbsent == "absent"
MalformedBody == [kind |-> "malformed", model |-> NoneArg, stream |-> StreamAbsent]
ArrayBody == [kind |-> "array", model |-> NoneArg, stream |-> StreamAbsent]
ObjectBody(model, stream) == [kind |-> "object", model |-> model, stream |-> stream]
\* The models a body names: none, a registered one, an unregistered one (the
\* handler only passes the name on to the selector).
RequestModels == {NoneArg, Llama8B, OtherModel}
InboundBodies ==
    {MalformedBody, ArrayBody} \cup
    {ObjectBody(m, st) : m \in RequestModels, st \in {StreamAbsent, "false", "true"}}

\* HTTP statuses a backend answers with.
Statuses == {200, 404, 500}

\* A backend's body is the sequence of chunks it sends; a chunk is a sequence
\* of tokens: a JSON document ("J1", "J2"), a document with a NaN literal,
\* white space, or text that is not JSON.
JsonDocuments == {"J1", "J2"}
NaNDocument == "JNaN"
WhiteSpace == " "
BackendBodies ==
    { << <<"J1">> >>, << <<"J2">> >>, << <<WhiteSpace, "J1", WhiteSpace>> >>,
      << <<NaNDocument>> >>, << <<"<html>">> >>,
      << <<"data: 1">>, <<"data: 2">> >>, <<>> }

\* What awaiting client.post(...) ends in: an exception, or a response.
NoReply == [kind |-> "none", status |-> 0, content_type |-> "", chunks |-> <<>>]
ReplyError(exc) == [kind |-> exc, status |-> 0, content_type |-> "", chunks |-> <<>>]
ReplyResponse(status, content_type, chunks) ==
    [kind |-> "response", status |-> status, content_type |-> content_type, chunks |-> chunks]
ContentTypeOf(chunks) ==
    IF Len(chunks) > 1 THEN "text/event-stream"
    ELSE IF chunks = << <<"<html>">> >> THEN "text/html" ELSE "application/json"
BackendReplies ==
    {ReplyError("ConnectError"), ReplyError("ReadTimeout")} \cup
    {ReplyResponse(st, ContentTypeOf(ch), ch) : st \in Statuses, ch \in BackendBodies}

\* The bytes of a body: its chunks one after the other.
RECURSIVE Flatten(_)
Flatten(chunks) ==
    IF chunks = <<>> THEN <<>> ELSE Head(chunks) \o Flatten(Tail(chunks))

\* Text with its white space dropped.
RECURSIVE Strip(_)
Strip(text) ==
    IF text = <<>> THEN <<>>
    ELSE IF Head(text) = WhiteSpace THEN Strip(Tail(text))
    ELSE <<Head(text)>> \o Strip(Tail(text))

\* response.json(): the value of the text, or JSONDecodeError. Python's
\* decoder takes white space round the document, and the NaN literal.
JSONDecodeError == "JSONDecodeError"
ParseJson(text) ==
    LET t == Strip(text) IN
    IF Len(t) = 1 /\ t[1] \in JsonDocuments \cup {NaNDocument}
    THEN [ok |-> TRUE, value |-> t[1]]
    ELSE [ok |-> FALSE, value |-> JSONDecodeError]

\* JSONResponse.render: the compact text of a value; NaN is refused
\* (json.dumps with allow_nan=False raises ValueError).
ValueError == "ValueError"
RenderJson(value) ==
    IF value = NaNDocument THEN [ok |-> FALSE, text |-> <<ValueError>>]
    ELSE [ok |-> TRUE, text |-> <<value>>]

\* response.aiter_bytes() on a response client.post has read in full: the
\* whole content as one chunk, and nothing for an empty content.
AiterBytes(content) == IF content = <<>> THEN <<>> ELSE <<content>>

\* One proxy_request call.
\* selects and forwards count its selector calls and its client.post calls;
\* upstream is the response the backend is sending and sent the number of
\* chunks the backend has produced so far; reply is what client.post ended in.
IdleRequest ==
    [pc |-> "idle", body |-> MalformedBody, endpoint |-> "", selects |-> 0,
     forwards |-> 0, upstream |-> NoReply, sent |-> 0,
     reply |-> NoReply, raised |-> "", pending |-> <<>>, responses |-> <<>>]

\* ------------------------------------------------------------ float order
\* Mutants of the comparison: `>` and `<=` written for `<`.
LessThanFlipped(a, b) == b # INF /\ (a = INF \/ b < a)
LessThanOrEqual(a, b) == b = INF \/ (a # INF /\ a <= b)

\* a < b on Python floats, with INF standing for float('inf').
LessThan(a, b) == a # INF /\ (b = INF \/ a < b)


\* ---------------------------------------------------------------- poller
\* One line of a backend's Prometheus text: whether it contains the key
\* 'vllm:num_requests_waiting', whether it starts with '#', and its last
\* token (a number when float() accepts it).
MetricLine(waiting, comment, parsable, value) ==
    [waiting |-> waiting, comment |-> comment, parsable |-> parsable, value |-> value]

\* The loop over metrics_text.split('\n'): queue_depth starts at 0 and every
\* matching, parsable line overwrites it; an unparsable one is passed over.
RECURSIVE ParseQueueDepth(_, _, _)
ParseQueueDepth(lines, i, queue_depth) ==
    IF i > Len(lines) THEN queue_depth
    ELSE LET line == lines[i] IN
         IF line.waiting /\ ~line.comment /\ line.parsable
         THEN ParseQueueDepth(lines, i + 1, line.value)
         ELSE ParseQueueDepth(lines, i + 1, queue_depth)

\* What one GET {endpoint}/metrics can end in.
ScrapeError == [kind |-> "error", status |-> 0, lines |-> <<>>]
ScrapeStatus(code, lines) == [kind |-> "response", status |-> code, lines |-> lines]

\* Mutant: the status of the answer is not looked at.
fetch_endpoint_metricsAnyStatus(endpoint, scrape, now) ==
    IF scrape.kind = "response"
    THEN [endpoint |-> endpoint,
          queue_depth |-> ParseQueueDepth(scrape.lines, 1, 0),
          timestamp |-> now,
          healthy |-> TRUE]
    ELSE [endpoint |-> endpoint,
          queue_depth |-> INF,
          timestamp |-> now,
          healthy |-> FALSE]

\* Mutant: a failed scrape reports an empty queue with the unhealthy flag.
fetch_endpoint_metricsFailureDepthZero(endpoint, scrape, now) ==
    IF scrape.kind = "response" /\ scrape.status = 200
    THEN [endpoint |-> endpoint,
          queue_depth |-> ParseQueueDepth(scrape.lines, 1, 0),
          timestamp |-> now,
          healthy |-> TRUE]
    ELSE [endpoint |-> endpoint,
          queue_depth |-> 0,
          timestamp |-> now,
          healthy |-> FALSE]

\* fetch_endpoint_metrics: the sample one scrape yields at time now.
fetch_endpoint_metrics(endpoint, scrape, now) ==
    IF scrape.kind = "response" /\ scrape.status = 200
    THEN [endpoint |-> endpoint,
          queue_depth |-> ParseQueueDepth(scrape.lines, 1, 0),
          timestamp |-> now,
          healthy |-> TRUE]
    ELSE [endpoint |-> endpoint,
          queue_depth |-> INF,
          timestamp |-> now,
          healthy |-> FALSE]

\* Mutant: the write loop ends at the first result of a failed scrape.
RECURSIVE WriteResultsStopAtFailure(_, _, _)
WriteResultsStopAtFailure(cache, results, i) ==
    IF i > Len(results) \/ ~results[i].healthy THEN cache
    ELSE LET m == results[i]
             written == [a \in DOMAIN cache \cup {m.endpoint} |->
                            IF a = m.endpoint THEN m ELSE cache[a]]
         IN WriteResultsStopAtFailure(written, results, i + 1)

\* Mutant: a failed scrape does not replace an entry that says healthy.
RECURSIVE WriteResultsKeepHealthy(_, _, _)
WriteResultsKeepHealthy(cache, results, i) ==
    IF i > Len(results) THEN cache
    ELSE LET m == results[i]
             written == [a \in DOMAIN cache \cup {m.endpoint} |->
                            IF a = m.endpoint /\ (m.healthy \/ a \notin DOMAIN cache)
                            THEN m ELSE cache[a]]
         IN WriteResultsKeepHealthy(written, results, i + 1)

\* Mutant: the result of a failed scrape is not stored.
RECURSIVE WriteResultsSkipFailed(_, _, _)
WriteResultsSkipFailed(cache, results, i) ==
    IF i > Len(results) THEN cache
    ELSE LET m == results[i]
             written == [a \in DOMAIN cache \cup {m.endpoint} |->
                            IF a = m.endpoint THEN m ELSE cache[a]]
         IN WriteResultsSkipFailed(IF m.healthy THEN written ELSE cache, results, i + 1)

\* Mutant: an entry that exists is updated in place, its queue depth only.
RECURSIVE WriteResultsDepthOnly(_, _, _)
WriteResultsDepthOnly(cache, results, i) ==
    IF i > Len(results) THEN cache
    ELSE LET m == results[i]
             written == [a \in DOMAIN cache \cup {m.endpoint} |->
                            IF a # m.endpoint THEN cache[a]
                            ELSE IF a \in DOMAIN cache
                                 THEN [cache[a] EXCEPT !.queue_depth = m.queue_depth]
                                 ELSE m]
         IN WriteResultsDepthOnly(written, results, i + 1)

\* for metrics in results: endpoint_metrics[metrics["endpoint"]] = metrics
RECURSIVE WriteResults(_, _, _)
WriteResults(cache, results, i) ==
    IF i > Len(results) THEN cache
    ELSE LET m == results[i]
             written == [a \in DOMAIN cache \cup {m.endpoint} |->
                            IF a = m.endpoint THEN m ELSE cache[a]]
         IN WriteResults(written, results, i + 1)

\* One entry of the poller's task list: the GET it awaits or has finished,
\* and the sample fetch_endpoint_metrics returned for it.
NoScrape == [kind |-> "none", status |-> 0, lines |-> <<>>]
NoMetrics == [endpoint |-> "", queue_depth |-> INF, timestamp |-> 0, healthy |-> FALSE]
IdleTask == [pc |-> "idle", scrape |-> NoScrape, metrics |-> NoMetrics]
PendingTask == [pc |-> "pending", scrape |-> NoScrape, metrics |-> NoMetrics]

\* startup_event: asyncio.create_task(metrics_poller()); the task has not run
\* yet, no scrape is in flight and every backend is reachable.
PollerCreated ==
    /\ pollPc = "start"
    /\ tasks = [i \in 1..Len(endpoints) |-> IdleTask]
    /\ clock = 0
    /\ down = {}

\* -------------------------------------------------------------- selector
\* Mutant: a backend without an entry counts as idle.
QueueDepthOfMissingIsZero(cache, endpoint) ==
    IF endpoint \in DOMAIN cache THEN cache[endpoint].queue_depth ELSE 0

\* endpoint_metrics.get(endpoint, {}).get("queue_depth", float('inf'))
QueueDepthOf(cache, endpoint) ==
    IF endpoint \in DOMAIN cache THEN cache[endpoint].queue_depth ELSE INF

\* The dict built at every call with a model: it indexes endpoints[0..5].
model_endpoints(eps) ==
    [m \in RegisteredModels |->
        CASE m = Llama8B -> <<eps[1], eps[2]>>
          [] m = Qwen7B -> <<eps[3], eps[4]>>
          [] m = Llama70B -> <<eps[5], eps[6]>>]

\* Mutant: the replicas of a model listed in the opposite order.
CandidatesReversed(eps, model) ==
    IF model \in RegisteredModels
    THEN <<model_endpoints(eps)[model][2], model_endpoints(eps)[model][1]>>
    ELSE SubSeq(eps, 1, IF Len(eps) < DefaultCandidates THEN Len(eps) ELSE DefaultCandidates)

\* model_endpoints.get(model, self.endpoints[:2])
Candidates(eps, model) ==
    IF model \in RegisteredModels THEN model_endpoints(eps)[model]
    ELSE SubSeq(eps, 1, IF Len(eps) < DefaultCandidates THEN Len(eps) ELSE DefaultCandidates)

\* The scan for the least busy candidate, in list order.
RECURSIVE LeastBusy(_, _, _, _, _)
LeastBusy(candidates, cache, i, min_queue_depth, best_endpoint) ==
    IF i > Len(candidates) THEN best_endpoint
    ELSE LET queue_depth == QueueDepthOf(cache, candidates[i]) IN
         IF LessThan(queue_depth, min_queue_depth)
         THEN LeastBusy(candidates, cache, i + 1, queue_depth, candidates[i])
         ELSE LeastBusy(candidates, cache, i + 1, min_queue_depth, best_endpoint)

\* Mutant: the no-model scan limited to the default candidates.
GlobalCandidatesFirstTwo(eps) ==
    SubSeq(eps, 1, IF Len(eps) < DefaultCandidates THEN Len(eps) ELSE DefaultCandidates)

\* The list scanned when no model is given.
GlobalCandidates(eps) == eps

\* EndpointSelector.get_best_endpoint: the address returned, or IndexError
\* when building the registry dict indexes past the configured list.
get_best_endpoint(eps, cache, model) ==
    IF Truthy(model)
    THEN IF Len(eps) < RegistryEndpoints THEN IndexError
         ELSE LET candidates == Candidates(eps, model)
              IN LeastBusy(candidates, cache, 1, INF, candidates[1])
    ELSE LET all == GlobalCandidates(eps)
         IN LeastBusy(all, cache, 1, INF, all[1])

\* ------------------------------------------------ round-robin selector
\* Mutant: every call served by the global iterator.
CursorOfAlwaysGlobal(model) == GlobalCursor

\* `if model and model in self.model_iterators`: the iterator a call steps.
CursorOf(model) ==
    IF Truthy(model) /\ model \in RegisteredModels THEN model ELSE GlobalCursor

\* The list an iterator cycles over.
CycleList(eps, cursor) ==
    IF cursor = GlobalCursor THEN eps ELSE model_endpoints(eps)[cursor]

\* next() on itertools.cycle(list) that has yielded pos items (mod length).
CycleItem(list, pos) == list[pos + 1]

\* Mutant: the iterator stepped twice per call.
CycleAdvanceTwice(list, pos) == (pos + 2) % Len(list)

\* The position after next(): one step on, wrapping at the end of the list.
CycleAdvance(list, pos) == (pos + 1) % Len(list)

\* The position of an iterator.
CursorPosition(cursor) ==
    IF cursor = GlobalCursor THEN global_iterator ELSE model_iterators[cursor]

\* ------------------------------------------------- selector specification
NoCall == [model |-> NoneArg, result |-> "<no call>"]

\* VLLM_ENDPOINTS: "".split(",") is [""], so the list is never empty.
ConfiguredEndpoints == {SubSeq(AddressPool, 1, n) : n \in 1..MaxEndpoints}

\* The scrapes that produce every sample a tick can write.
SampleScrapes ==
    {ScrapeError} \cup
    {ScrapeStatus(200, <<MetricLine(TRUE, FALSE, TRUE, d)>>) : d \in QueueDepths}

\* The cache one poll tick leaves: one sample per configured backend.
TickCache(eps, scrapes, now) ==
    WriteResults(<<>>, [i \in 1..Len(eps) |-> fetch_endpoint_metrics(eps[i], scrapes[i], now)], 1)

\* The caches the poller can have installed: none before the first tick
\* completes, afterwards the samples of the latest tick.
InitSelector ==
    /\ endpoints \in ConfiguredEndpoints
    /\ \/ endpoint_metrics = <<>>
       \/ \E scrapes \in [1..Len(endpoints) -> SampleScrapes] :
             endpoint_metrics = TickCache(endpoints, scrapes, 1)
    /\ selected = NoCall
    /\ ncalls = 0
    /\ variant = Managed
    /\ model_iterators = NoIterators
    /\ global_iterator = 0
    /\ returned = NoReturns
    /\ requests = [r \in RequestIds |-> IdleRequest]
    /\ PollerCreated
    /\ observed = NoObservation

\* One call of get_best_endpoint(model); it reads the cache and writes nothing.
SelectorCall(model) ==
    /\ ncalls < MaxCalls
    /\ selected' = [model |-> model,
                    result |-> get_best_endpoint(endpoints, endpoint_metrics, model)]
    /\ ncalls' = ncalls + 1
    /\ UNCHANGED <<pollerVars, observed, variant, endpoints, endpoint_metrics, model_iterators,
                   global_iterator, returned, requests>>

NextSelector == \E model \in ModelArgs : SelectorCall(model)

SpecSelector == InitSelector /\ [][NextSelector]_vars

\* ------------------------------------------------------- selector claims
\* The queue depth the Load Cache holds for a backend (+inf when it holds none).
CachedDepth(e) ==
    IF e \in DOMAIN endpoint_metrics THEN endpoint_metrics[e].queue_depth ELSE INF

\* d1 is a strictly lower queue depth than d2.
Lower(d1, d2) == d1 # INF /\ (d2 = INF \/ d1 < d2)

\* The registry exists: the configured list has the six backends it indexes.
RegistryBuilt == Len(endpoints) >= RegistryEndpoints

\* The replicas of a registered model, in registry order.
Replicas(m) ==
    CASE m = Llama8B -> <<endpoints[1], endpoints[2]>>
      [] m = Qwen7B -> <<endpoints[3], endpoints[4]>>
      [] m = Llama70B -> <<endpoints[5], endpoints[6]>>

\* A call with a registered model was made and returned.
ModelCallMade ==
    selected # NoCall /\ selected.model \in RegisteredModels /\ RegistryBuilt

\* r is the first element of cands, in list order, among those of least depth.
FirstOfLeast(cands, r) ==
    \E i \in DOMAIN cands :
        /\ cands[i] = r
        /\ \A j \in DOMAIN cands : j < i => Lower(CachedDepth(r), CachedDepth(cands[j]))
        /\ \A j \in DOMAIN cands : ~Lower(CachedDepth(cands[j]), CachedDepth(r))

\* C1: a call with a registered model returns the replica whose cached queue
\* depth is strictly lower than that of every other replica of the model,
\* wherever it stands in the registry and however many calls came before;
\* a replica of depth +inf is not returned while another has a finite depth.
C1_StrictlyLowestReplicaReturned ==
    ModelCallMade =>
        LET reps == Replicas(selected.model) IN
        /\ \A i \in DOMAIN reps :
              (\A j \in DOMAIN reps \ {i} :
                    Lower(CachedDepth(reps[i]), CachedDepth(reps[j])))
              => selected.result = reps[i]
        /\ (\E j \in DOMAIN reps : CachedDepth(reps[j]) # INF)
              => CachedDepth(selected.result) # INF

\* C1 witness: after earlier calls, the second replica of a model is strictly
\* the less loaded one (the first has a finite depth) and is returned.
C1_Witness ==
    /\ ModelCallMade /\ ncalls > 1
    /\ LET reps == Replicas(selected.model) IN
         /\ CachedDepth(reps[1]) # INF
         /\ Lower(CachedDepth(reps[2]), CachedDepth(reps[1]))
         /\ selected.result = reps[2]

\* C2: a call with a non-empty model name that is not in the registry scans
\* the full global backend list, so it returns a backend of least queue depth
\* among all configured backends.
C2_UnregisteredModelScansGlobalList ==
    (selected # NoCall /\ selected.model = OtherModel /\ RegistryBuilt) =>
        \A i \in DOMAIN endpoints :
            ~Lower(CachedDepth(endpoints[i]), CachedDepth(selected.result))

\* C3: when every replica of a registered model has depth +inf in the cache
\* (failed scrape or never scraped), the call returns the first replica in
\* registry order, on every call.
C3_AllInfReturnsFirstReplica ==
    ModelCallMade =>
        LET reps == Replicas(selected.model) IN
        (\A j \in DOMAIN reps : CachedDepth(reps[j]) = INF)
            => selected.result = reps[1]

\* C3 witness: a repeated call for a model whose replicas were scraped and
\* both failed returns the first replica.
C3_Witness ==
    /\ ModelCallMade /\ ncalls > 1
    /\ LET reps == Replicas(selected.model) IN
         /\ \A j \in DOMAIN reps :
               reps[j] \in DOMAIN endpoint_metrics /\ CachedDepth(reps[j]) = INF
         /\ selected.result = reps[1]

\* The list a call scans when it is given a registered model or no model.
ScannedList ==
    IF selected.model \in RegisteredModels THEN Replicas(selected.model) ELSE endpoints

\* Two or more elements of cands share the least depth.
TieAtLeast(cands) ==
    \E i, j \in DOMAIN cands :
        /\ i # j
        /\ CachedDepth(cands[i]) = CachedDepth(cands[j])
        /\ \A k \in DOMAIN cands : ~Lower(CachedDepth(cands[k]), CachedDepth(cands[i]))

\* C4: when two or more candidates share the minimum queue depth, the call
\* returns the one that comes first in list order, for a model's replica list
\* and for the global list alike.
C4_TieKeepsFirstInOrder ==
    (selected # NoCall /\ (ModelCallMade \/ ~Truthy(selected.model))
        /\ TieAtLeast(ScannedList))
    => FirstOfLeast(ScannedList, selected.result)

\* C4 witness: a model's two replicas share a finite depth and the first is
\* returned.
C4_Witness ==
    /\ ModelCallMade
    /\ LET reps == Replicas(selected.model) IN
         /\ CachedDepth(reps[1]) # INF
         /\ CachedDepth(reps[1]) = CachedDepth(reps[2])
         /\ selected.result = reps[1]

\* C5: a call with no model (None) or an empty model returns the backend of
\* least queue depth over the whole configured list; ties and the case of all
\* depths +inf go to the first backend in list order.
C5_NoModelScansGlobalList ==
    (selected # NoCall /\ ~Truthy(selected.model))
    => FirstOfLeast(endpoints, selected.result)

\* C5 witness: with an empty model name the call returns a backend beyond the
\* registry's six, the only one of least depth.
C5_Witness ==
    /\ selected # NoCall /\ selected.model = ""
    /\ Len(endpoints) > RegistryEndpoints
    /\ selected.result = endpoints[Len(endpoints)]
    /\ \A i \in 1..(Len(endpoints) - 1) :
          Lower(CachedDepth(selected.result), CachedDepth(endpoints[i]))

\* C6: for every model argument, every cache and every non-empty configured
\* list, the call returns one configured backend address and raises nothing.
C6_SelectorNeverRaises ==
    selected # NoCall => \E i \in DOMAIN endpoints : selected.result = endpoints[i]

\* -------------------------------------------- round-robin specification
\* RoundRobinSelector.__init__ indexes endpoints[0..5]: the baseline only
\* starts with six or more configured backends.
InitRoundRobin ==
    /\ variant = Baseline
    /\ endpoints \in {eps \in ConfiguredEndpoints : Len(eps) >= RegistryEndpoints}
    /\ endpoint_metrics = NoCache
    /\ model_iterators = [m \in RegisteredModels |-> 0]
    /\ global_iterator = 0
    /\ selected = NoCall
    /\ ncalls = 0
    /\ returned = NoReturns
    /\ requests = [r \in RequestIds |-> IdleRequest]
    /\ PollerCreated
    /\ observed = NoObservation

\* RoundRobinSelector.get_next_endpoint(model): one synchronous call.
get_next_endpoint(model) ==
    LET cursor == CursorOf(model)
        list == CycleList(endpoints, cursor)
        endpoint == CycleItem(list, CursorPosition(cursor))
    IN /\ IF cursor = GlobalCursor
          THEN /\ global_iterator' = CycleAdvance(list, global_iterator)
               /\ UNCHANGED model_iterators
          ELSE /\ model_iterators' =
                     [model_iterators EXCEPT ![cursor] = CycleAdvance(list, @)]
               /\ UNCHANGED global_iterator
       /\ selected' = [model |-> model, result |-> endpoint]
       /\ returned' = [returned EXCEPT ![cursor] = Append(@, endpoint)]

RoundRobinCall(model) ==
    /\ ncalls < MaxRoundRobinCalls
    /\ get_next_endpoint(model)
    /\ ncalls' = ncalls + 1
    /\ UNCHANGED <<pollerVars, observed, variant, endpoints, endpoint_metrics, requests>>

NextRoundRobin == \E model \in ModelArgs : RoundRobinCall(model)

SpecRoundRobin == InitRoundRobin /\ [][NextRoundRobin]_vars

\* ---------------------------------------------------- round-robin claims
\* C7: for a registered model with k replicas, the addresses returned by its
\* consecutive calls follow the registry order and repeat with period k, each
\* replica once per period, however calls for other models are interleaved.
C7_RoundRobinPeriodic ==
    \A m \in RegisteredModels :
        LET reps == Replicas(m)
            k == Len(reps)
            seq == returned[m]
        IN /\ \A j \in DOMAIN seq : j <= k => seq[j] = reps[j]
           /\ \A j \in DOMAIN seq : j + k \in DOMAIN seq => seq[j + k] = seq[j]

\* C7 witness: a model has been served for more than two periods while calls
\* for another model and for no model came in between.
C7_Witness ==
    /\ Len(returned[Qwen7B]) > 2 * Len(Replicas(Qwen7B))
    /\ Len(returned[Llama8B]) > 0
    /\ Len(returned[GlobalCursor]) > 1

\* The length of the list an iterator cycles over.
CycleLength(cursor) ==
    IF cursor = GlobalCursor THEN Len(endpoints) ELSE Len(Replicas(cursor))

\* The position of iterator c, given the two iterator variables.
PositionIn(iterators, global, c) ==
    IF c = GlobalCursor THEN global ELSE iterators[c]

\* C8: a call steps exactly one iterator by exactly one place - the model's
\* for a registered model, the global one for an unknown or absent model -
\* and leaves every other iterator where it was; nothing else moves one.
C8_OneCursorStepPerCall ==
    [][IF ncalls' = ncalls + 1
       THEN LET m == selected'.model
                c == IF m \in RegisteredModels THEN m ELSE GlobalCursor
            IN /\ PositionIn(model_iterators', global_iterator', c)
                     = (PositionIn(model_iterators, global_iterator, c) + 1) % CycleLength(c)
               /\ \A d \in Cursors \ {c} :
                     PositionIn(model_iterators', global_iterator', d)
                        = PositionIn(model_iterators, global_iterator, d)
       ELSE \A d \in Cursors :
               PositionIn(model_iterators', global_iterator', d)
                  = PositionIn(model_iterators, global_iterator, d)]_vars

\* C8 witness: the global iterator has wrapped round the whole list and a
\* model's iterator has stepped, the last call being one for an unknown model.
C8_Witness ==
    /\ variant = Baseline
    /\ selected.model = OtherModel
    /\ Len(returned[GlobalCursor]) > Len(endpoints)
    /\ model_iterators[Llama70B] = 1

\* ------------------------------------------------------------------ proxy
\* body.get("stream", False), as the `if` reads it.
StreamRequested(body) == body.stream = "true"

\* Mutant: the exception is logged and the handler returns no response.
HandleExceptionSwallowed(req, exc) ==
    [req EXCEPT !.pc = "done", !.raised = exc]

\* Mutant: after the exception the handler starts over with the request.
HandleExceptionRetry(req, exc) ==
    [req EXCEPT !.pc = "body", !.raised = exc, !.upstream = NoReply, !.sent = 0]

\* except Exception as e: raise HTTPException(status_code=500, detail=str(e))
HandleException(req, exc) ==
    [req EXCEPT !.pc = "done", !.raised = exc,
                !.responses = Append(@, [status |-> 500, media_type |-> "application/json",
                                         detail |-> exc, chunks |-> <<>>])]

\* Mutant: the JSONResponse built without the backend's status code.
JsonResponseStatus200(req, reply) ==
    LET content == ParseJson(Flatten(reply.chunks)) IN
    IF ~content.ok THEN HandleException(req, content.value)
    ELSE LET rendered == RenderJson(content.value) IN
         IF ~rendered.ok THEN HandleException(req, ValueError)
         ELSE [req EXCEPT !.pc = "done", !.reply = reply,
                          !.responses = Append(@, [status |-> 200,
                                                   media_type |-> "application/json",
                                                   detail |-> "",
                                                   chunks |-> <<rendered.text>>])]

\* Mutant: response.raise_for_status() called before the body is used.
JsonResponseRaiseForStatus(req, reply) ==
    IF reply.status \notin 200..299
    THEN HandleException([req EXCEPT !.reply = reply], "HTTPStatusError")
    ELSE JsonResponseStatus200(req, reply)

\* JSONResponse(content=response.json(), status_code=response.status_code)
JsonResponse(req, reply) ==
    LET content == ParseJson(Flatten(reply.chunks)) IN
    IF ~content.ok THEN HandleException([req EXCEPT !.reply = reply], content.value)
    ELSE LET rendered == RenderJson(content.value) IN
         IF ~rendered.ok THEN HandleException([req EXCEPT !.reply = reply], ValueError)
         ELSE [req EXCEPT !.pc = "done", !.reply = reply,
                          !.responses = Append(@, [status |-> reply.status,
                                                   media_type |-> "application/json",
                                                   detail |-> "",
                                                   chunks |-> <<rendered.text>>])]

\* StreamingResponse(stream_response(), media_type=..., status_code=...): the
\* response is opened; its chunks follow as the generator yields them.
StreamingResponse(req, reply) ==
    [req EXCEPT !.pc = "streaming", !.reply = reply,
                !.pending = AiterBytes(Flatten(reply.chunks)),
                !.responses = Append(@, [status |-> reply.status,
                                         media_type |-> reply.content_type,
                                         detail |-> "",
                                         chunks |-> <<>>])]

\* A request arrives and proxy_request awaits request.json().
ReceiveRequest(r, body) ==
    /\ requests[r].pc = "idle"
    /\ requests' = [requests EXCEPT ![r] = [IdleRequest EXCEPT !.pc = "body", !.body = body]]
    /\ UNCHANGED <<pollerVars, observed, variant, endpoints, endpoint_metrics, model_iterators,
                   global_iterator, selected, ncalls, returned>>

\* The body is in but request.json() or body.get raises: a 500.
ParseFails(r) ==
    /\ requests[r].pc = "body"
    /\ requests[r].body.kind # "object"
    /\ requests' = [requests EXCEPT ![r] =
          HandleException(@, IF @.body.kind = "malformed" THEN JSONDecodeError
                             ELSE "AttributeError")]
    /\ UNCHANGED <<pollerVars, observed, variant, endpoints, endpoint_metrics, model_iterators,
                   global_iterator, selected, ncalls, returned>>

\* Managed: the body parses, get_best_endpoint(model) runs and client.post
\* is started; a selector that raises ends the request with a 500.
SelectManaged(r) ==
    /\ variant = Managed
    /\ requests[r].pc = "body"
    /\ requests[r].body.kind = "object"
    /\ LET model == requests[r].body.model
           endpoint == get_best_endpoint(endpoints, endpoint_metrics, model)
       IN /\ selected' = [model |-> model, result |-> endpoint]
          /\ requests' = [requests EXCEPT ![r] =
                IF endpoint = IndexError
                THEN HandleException([@ EXCEPT !.selects = @ + 1], IndexError)
                ELSE [@ EXCEPT !.pc = "forward", !.endpoint = endpoint,
                               !.selects = @ + 1, !.forwards = @ + 1]]
    /\ ncalls' = ncalls + 1
    /\ UNCHANGED <<pollerVars, observed, variant, endpoints, endpoint_metrics, model_iterators,
                   global_iterator, returned>>

\* Baseline: the body parses, get_next_endpoint(model) runs and client.post
\* is started.
SelectBaseline(r) ==
    /\ variant = Baseline
    /\ requests[r].pc = "body"
    /\ requests[r].body.kind = "object"
    /\ get_next_endpoint(requests[r].body.model)
    /\ requests' = [requests EXCEPT ![r] =
          [@ EXCEPT !.pc = "forward", !.endpoint = selected'.result,
                    !.selects = @ + 1, !.forwards = @ + 1]]
    /\ ncalls' = ncalls + 1
    /\ UNCHANGED <<pollerVars, observed, variant, endpoints, endpoint_metrics>>

\* The backend starts to answer the forwarded request: status and headers.
BackendResponds(r, reply) ==
    /\ requests[r].pc = "forward"
    /\ requests[r].upstream = NoReply
    /\ requests[r].endpoint \notin down
    /\ reply.kind = "response"
    /\ requests' = [requests EXCEPT ![r] = [@ EXCEPT !.upstream = reply, !.sent = 0]]
    /\ UNCHANGED <<pollerVars, observed, variant, endpoints, endpoint_metrics, model_iterators,
                   global_iterator, selected, ncalls, returned>>

\* The backend produces the next chunk of its body.
BackendSendsChunk(r) ==
    /\ requests[r].pc = "forward"
    /\ requests[r].upstream # NoReply
    /\ requests[r].sent < Len(requests[r].upstream.chunks)
    /\ requests[r].endpoint \notin down
    /\ requests' = [requests EXCEPT ![r] = [@ EXCEPT !.sent = @ + 1]]
    /\ UNCHANGED <<pollerVars, observed, variant, endpoints, endpoint_metrics, model_iterators,
                   global_iterator, selected, ncalls, returned>>

\* Mutant: a forward that fails marks the backend unhealthy in the cache.
ForwardReturnsMarksUnhealthy(r, reply) ==
    /\ requests[r].pc = "forward"
    /\ reply.kind = "response" =>
          /\ requests[r].upstream = reply
          /\ requests[r].sent = Len(reply.chunks)
    /\ requests' = [requests EXCEPT ![r] =
          LET closed == [@ EXCEPT !.upstream = NoReply, !.sent = 0] IN
          IF reply.kind # "response"
          THEN HandleException([closed EXCEPT !.reply = reply], reply.kind)
          ELSE IF StreamRequested(@.body) THEN StreamingResponse(closed, reply)
          ELSE JsonResponse(closed, reply)]
    /\ endpoint_metrics' =
          IF reply.kind # "response" /\ requests[r].endpoint \in DOMAIN endpoint_metrics
          THEN [endpoint_metrics EXCEPT ![requests[r].endpoint] =
                   [@ EXCEPT !.queue_depth = INF, !.healthy = FALSE]]
          ELSE endpoint_metrics
    /\ UNCHANGED <<pollerVars, observed, variant, endpoints, model_iterators,
                   global_iterator, selected, ncalls, returned>>

\* client.post(...) ends: with an exception (unreachable backend, timeout), or
\* with the backend's response once its body has been read in full; the
\* handler then answers and leaves the `async with`, which closes the client.
ForwardReturns(r, reply) ==
    /\ requests[r].pc = "forward"
    /\ reply.kind = "response" =>
          /\ requests[r].upstream = reply
          /\ requests[r].sent = Len(reply.chunks)
    /\ requests' = [requests EXCEPT ![r] =
          LET closed == [@ EXCEPT !.upstream = NoReply, !.sent = 0] IN
          IF reply.kind # "response"
          THEN HandleException([closed EXCEPT !.reply = reply], reply.kind)
          ELSE IF StreamRequested(@.body) THEN StreamingResponse(closed, reply)
          ELSE JsonResponse(closed, reply)]
    /\ UNCHANGED <<pollerVars, observed, variant, endpoints, endpoint_metrics, model_iterators,
                   global_iterator, selected, ncalls, returned>>

\* Mutant: the generator goes on delivering after the caller has gone.
StreamChunkAfterDisconnect(r) ==
    /\ requests[r].pc \in {"streaming", "disconnected"}
    /\ requests[r].pending # <<>>
    /\ requests' = [requests EXCEPT ![r] =
          [@ EXCEPT !.pending = Tail(@),
                    !.responses[1].chunks = Append(@, Head(requests[r].pending))]]
    /\ UNCHANGED <<pollerVars, observed, variant, endpoints, endpoint_metrics, model_iterators,
                   global_iterator, selected, ncalls, returned>>

\* stream_response(): the next chunk of response.aiter_bytes() goes to the
\* caller; when there is none left the response is complete.
StreamChunk(r) ==
    /\ requests[r].pc = "streaming"
    /\ requests' = [requests EXCEPT ![r] =
          IF @.pending = <<>> THEN [@ EXCEPT !.pc = "done"]
          ELSE [@ EXCEPT !.pending = Tail(@),
                         !.responses[1].chunks = Append(@, Head(requests[r].pending))]]
    /\ UNCHANGED <<pollerVars, observed, variant, endpoints, endpoint_metrics, model_iterators,
                   global_iterator, selected, ncalls, returned>>

\* The caller closes its connection while the StreamingResponse is open. The
\* handler has returned by then: client.post has read the whole body and the
\* `async with` has closed the client, so no backend connection is held.
CallerDisconnects(r) ==
    /\ requests[r].pc = "streaming"
    /\ requests' = [requests EXCEPT ![r] = [@ EXCEPT !.pc = "disconnected"]]
    /\ UNCHANGED <<pollerVars, observed, variant, endpoints, endpoint_metrics, model_iterators,
                   global_iterator, selected, ncalls, returned>>

\* After the disconnect the server either cancels stream_response() where it
\* stands, or lets it run while the chunks it yields reach nobody: the
\* buffered chunk is dropped, nothing is added to what the caller received.
StreamAfterDisconnect(r) ==
    /\ requests[r].pc = "disconnected"
    /\ requests[r].pending # <<>>
    /\ requests' = [requests EXCEPT ![r] = [@ EXCEPT !.pending = Tail(@)]]
    /\ UNCHANGED <<pollerVars, observed, variant, endpoints, endpoint_metrics, model_iterators,
                   global_iterator, selected, ncalls, returned>>

\* The backend lists the handlers are explored with: one too short for the
\* registry of the managed selector, and one that fills it.
ProxyEndpoints ==
    {SubSeq(AddressPool, 1, n) : n \in {RegistryEndpoints - 1, RegistryEndpoints}}

\* The process after start-up: the managed one runs with either list, the
\* baseline one only with the six backends its constructor indexes.
Init ==
    /\ variant \in {Managed, Baseline}
    /\ endpoints \in ProxyEndpoints
    /\ variant = Baseline => Len(endpoints) >= RegistryEndpoints
    /\ endpoint_metrics = NoCache
    /\ model_iterators = NoIterators
    /\ global_iterator = 0
    /\ selected = NoCall
    /\ ncalls = 0
    /\ returned = NoReturns
    /\ requests = [r \in RequestIds |-> IdleRequest]
    /\ PollerCreated
    /\ observed = NoObservation

Next ==
    \E r \in RequestIds :
        \/ \E body \in InboundBodies : ReceiveRequest(r, body)
        \/ ParseFails(r)
        \/ SelectManaged(r)
        \/ SelectBaseline(r)
        \/ \E reply \in BackendReplies : BackendResponds(r, reply)
        \/ BackendSendsChunk(r)
        \/ \E reply \in BackendReplies : ForwardReturns(r, reply)
        \/ StreamChunk(r)
        \/ CallerDisconnects(r)
        \/ StreamAfterDisconnect(r)

Spec == Init /\ [][Next]_vars

\* ------------------------------------------------------------ proxy claims
\* C9: a failure while parsing the inbound body, selecting a backend or
\* talking to the backend gives the caller exactly one response, of status
\* 500 and carrying the failure's description; no request gets more than one
\* response, and none ends with no response.
C9_FailureIsOne500 ==
    \A r \in RequestIds :
        LET req == requests[r] IN
        /\ Len(req.responses) <= 1
        /\ req.pc = "done" => Len(req.responses) = 1
        /\ req.raised # "" =>
              /\ req.pc = "done"
              /\ Len(req.responses) = 1
              /\ req.responses[1].status = 500
              /\ req.responses[1].detail = req.raised

\* C9 witness: a request was forwarded, the backend could not be reached, and
\* the caller got the one 500 response.
C9_Witness ==
    \E r \in RequestIds :
        /\ requests[r].forwards = 1
        /\ requests[r].raised = "ConnectError"
        /\ requests[r].pc = "done"
        /\ Len(requests[r].responses) = 1
        /\ requests[r].responses[1].status = 500

\* The text is one JSON document (white space round it allowed).
IsJsonText(text) ==
    \E doc \in JsonDocuments :
        /\ \E i \in DOMAIN text : text[i] = doc
        /\ \A i \in DOMAIN text : text[i] \in {doc, WhiteSpace}
        /\ Cardinality({i \in DOMAIN text : text[i] = doc}) = 1

\* The JSON document a text holds.
DocumentOf(text) == CHOOSE doc \in JsonDocuments : \E i \in DOMAIN text : text[i] = doc

BackendNon2xx(req) ==
    /\ req.pc \in {"streaming", "done"}
    /\ req.reply.kind = "response"
    /\ req.reply.status \notin 200..299

\* C11 as the spec states it: when the chosen backend answers with a non-2xx
\* status the caller receives a 500 response carrying the underlying message,
\* a proxy failure and not the backend's response relayed.
C11_Non2xxIsProxyFailure ==
    \A r \in RequestIds :
        LET req == requests[r] IN
        BackendNon2xx(req)
        => /\ req.raised # ""
           /\ Len(req.responses) = 1
           /\ req.responses[1].status = 500
           /\ req.responses[1].detail = req.raised

\* C11 as the code has it: a non-2xx answer of the backend is relayed with the
\* backend's own status code and is no proxy failure; the proxy's own 500
\* follows only when the request does not stream and the backend's body is
\* not a JSON document that can be parsed and serialised again.
C11_Non2xxIsRelayed ==
    \A r \in RequestIds :
        LET req == requests[r] IN
        BackendNon2xx(req)
        => /\ Len(req.responses) = 1
           /\ IF req.raised = ""
              THEN /\ req.responses[1].status = req.reply.status
                   /\ req.responses[1].detail = ""
              ELSE /\ ~StreamRequested(req.body)
                   /\ ~IsJsonText(Flatten(req.reply.chunks))
                   /\ req.raised \in {JSONDecodeError, ValueError}
                   /\ req.responses[1].status = 500
           /\ (StreamRequested(req.body) \/ IsJsonText(Flatten(req.reply.chunks)))
                 => req.raised = ""

\* C11 witness: the backend answered 404 with a JSON body and the caller got
\* a 404, with no exception raised in the handler.
C11_Witness ==
    \E r \in RequestIds :
        /\ requests[r].pc = "done"
        /\ requests[r].reply.kind = "response"
        /\ requests[r].reply.status = 404
        /\ requests[r].reply.chunks = << <<"J2">> >>
        /\ requests[r].raised = ""
        /\ Len(requests[r].responses) = 1
        /\ requests[r].responses[1].status = 404

\* C12: for a streaming request the proxy does not wait for the whole body of
\* the backend: once the backend has produced a chunk, and before it has
\* produced its last one, the response to the caller is open and the chunk
\* is on its way.
C12_StreamRelaysBeforeBackendEnds ==
    \A r \in RequestIds :
        LET req == requests[r] IN
        (StreamRequested(req.body) /\ req.upstream.kind = "response"
            /\ req.sent >= 1 /\ req.sent < Len(req.upstream.chunks))
        => /\ req.pc \in {"streaming", "done"}
           /\ Len(req.responses) = 1

\* C13: for a streaming request the chunks delivered to the caller are the
\* chunks of the backend, in order, none dropped, duplicated or reordered,
\* under the backend's status code and declared content type.
C13_StreamChunksVerbatim ==
    \A r \in RequestIds :
        LET req == requests[r] IN
        (req.pc = "done" /\ StreamRequested(req.body) /\ req.reply.kind = "response")
        => /\ Len(req.responses) = 1
           /\ req.responses[1].status = req.reply.status
           /\ req.responses[1].media_type = req.reply.content_type
           /\ req.responses[1].chunks = req.reply.chunks

\* C14: a request makes at most one selector call and at most one forward
\* attempt, to one backend; once a failure was raised nothing is selected or
\* sent again, and the backend of a forwarded request never changes.
C14_NoRetry ==
    /\ [](\A r \in RequestIds :
            /\ requests[r].selects <= 1
            /\ requests[r].forwards <= 1
            /\ requests[r].forwards <= requests[r].selects)
    /\ [][\A r \in RequestIds :
            /\ requests[r].raised # "" =>
                  /\ requests'[r].selects = requests[r].selects
                  /\ requests'[r].forwards = requests[r].forwards
                  /\ requests'[r].pc = "done"
            /\ requests[r].forwards = 1 =>
                  requests'[r].endpoint = requests[r].endpoint]_vars

\* C14 witness: a request was forwarded once, the forward timed out, and the
\* request ended there.
C14_Witness ==
    \E r \in RequestIds :
        /\ requests[r].pc = "done"
        /\ requests[r].selects = 1
        /\ requests[r].forwards = 1
        /\ requests[r].raised = "ReadTimeout"
        /\ Len(requests[r].responses) = 1

handlerVars == <<variant, endpoints, model_iterators, global_iterator,
                 selected, ncalls, returned, requests, observed>>

\* Mutant: a second poller runs beside the first and starts its tick while
\* the scrapes of the first are in flight.
TickStartsWhileGathering ==
    /\ variant = Managed
    /\ pollPc \in {"start", "sleep", "gather"}
    /\ pollPc' = "gather"
    /\ tasks' = [i \in 1..Len(endpoints) |-> PendingTask]
    /\ UNCHANGED <<handlerVars, endpoint_metrics, clock, down>>

\* metrics_poller, top of the loop: one fetch_endpoint_metrics per configured
\* backend is created and asyncio.gather awaits them all. The first tick
\* starts when the task first runs, a later one when the sleep has elapsed.
TickStarts ==
    /\ variant = Managed
    /\ pollPc \in {"start", "sleep"}
    /\ pollPc' = "gather"
    /\ tasks' = [i \in 1..Len(endpoints) |-> PendingTask]
    /\ UNCHANGED <<handlerVars, endpoint_metrics, clock, down>>

\* One fetch_endpoint_metrics ends: its GET raised, timed out or was
\* answered, and the sample is built with the time of that moment. A backend
\* that is unreachable answers nothing.
ScrapeCompletes(i, scrape) ==
    /\ pollPc = "gather"
    /\ i \in DOMAIN tasks
    /\ tasks[i].pc = "pending"
    /\ endpoints[i] \in down => scrape = ScrapeError
    /\ tasks' = [tasks EXCEPT ![i] =
          [pc |-> "done", scrape |-> scrape,
           metrics |-> fetch_endpoint_metrics(endpoints[i], scrape, clock)]]
    /\ UNCHANGED <<handlerVars, endpoint_metrics, pollPc, clock, down>>

\* Mutant: the write loop yields to the event loop after each result.
WriteCacheOneAtATime ==
    /\ pollPc = "gather"
    /\ \A i \in DOMAIN tasks : tasks[i].pc = "done"
    /\ LET stale == {i \in DOMAIN tasks :
                        \/ endpoints[i] \notin DOMAIN endpoint_metrics
                        \/ endpoint_metrics[endpoints[i]] # tasks[i].metrics}
       IN IF stale = {}
          THEN endpoint_metrics' = endpoint_metrics /\ pollPc' = "sleep"
          ELSE LET i == CHOOSE j \in stale : \A k \in stale : j <= k
               IN /\ endpoint_metrics' =
                        WriteResults(endpoint_metrics, <<tasks[i].metrics>>, 1)
                  /\ pollPc' = IF stale = {i} THEN "sleep" ELSE "gather"
    /\ UNCHANGED <<handlerVars, tasks, clock, down>>

\* gather returns once every scrape has ended; the loop over results writes
\* all samples into the cache without a suspension point, and the poller
\* goes to sleep for METRICS_POLL_INTERVAL.
WriteCache ==
    /\ pollPc = "gather"
    /\ \A i \in DOMAIN tasks : tasks[i].pc = "done"
    /\ endpoint_metrics' =
          WriteResults(endpoint_metrics, [i \in DOMAIN tasks |-> tasks[i].metrics], 1)
    /\ pollPc' = "sleep"
    /\ UNCHANGED <<handlerVars, tasks, clock, down>>

\* Time passes.
ClockTicks ==
    /\ clock < MaxClock
    /\ clock' = clock + 1
    /\ UNCHANGED <<handlerVars, endpoint_metrics, pollPc, tasks, down>>

\* A backend stops accepting connections, or accepts them again.
BackendGoesDown(e) ==
    /\ e \notin down
    /\ down' = down \cup {e}
    /\ UNCHANGED <<handlerVars, endpoint_metrics, pollPc, tasks, clock>>

BackendComesUp(e) ==
    /\ e \in down
    /\ down' = down \ {e}
    /\ UNCHANGED <<handlerVars, endpoint_metrics, pollPc, tasks, clock>>

\* ----------------------------------------------------- poller specification
PolledEndpoints == {SubSeq(AddressPool, 1, n) : n \in 1..MaxPolledEndpoints}

\* Lines of a /metrics text: the queue-depth line with a number, the same
\* line with a last token float() refuses, and the '# HELP' comment naming
\* the key.
WaitingLine(value) == MetricLine(TRUE, FALSE, TRUE, value)
GarbledLine == MetricLine(TRUE, FALSE, FALSE, 0)
CommentLine == MetricLine(TRUE, TRUE, FALSE, 0)
OtherLine == MetricLine(FALSE, FALSE, TRUE, 2)

\* What the scrapes of the poller end in: an exception or timeout, a status
\* other than 200, and 200 with a text that has the key only in a comment,
\* only garbled, once, twice, or once before a garbled line.
PolledScrapes ==
    {ScrapeError, ScrapeStatus(503, <<WaitingLine(1)>>)} \cup
    {ScrapeStatus(200, lines) :
        lines \in { <<CommentLine, OtherLine>>, <<GarbledLine>>,
                    <<WaitingLine(1)>>,
                    <<WaitingLine(1), WaitingLine(2)>>,
                    <<WaitingLine(2), GarbledLine>> }}

InitPoller ==
    /\ variant = Managed
    /\ endpoints \in PolledEndpoints
    /\ endpoint_metrics = NoCache
    /\ model_iterators = NoIterators
    /\ global_iterator = 0
    /\ selected = NoCall
    /\ ncalls = 0
    /\ returned = NoReturns
    /\ requests = [r \in RequestIds |-> IdleRequest]
    /\ PollerCreated
    /\ observed = NoObservation

NextPoller ==
    \/ TickStarts
    \/ \E i \in 1..MaxPolledEndpoints, scrape \in PolledScrapes : ScrapeCompletes(i, scrape)
    \/ WriteCache
    \/ ClockTicks

SpecPoller == InitPoller /\ [][NextPoller]_vars

\* ------------------------------------------------------------ poller claims
\* The scrape ended in an exception, a timeout or a status other than 200.
ScrapeFailed(scrape) == scrape.kind # "response" \/ scrape.status # 200

\* The lines of a text that carry the key outside a comment, and those of
\* them whose value is a number.
KeyLines(lines) == {k \in DOMAIN lines : lines[k].waiting /\ ~lines[k].comment}
ParsableKeyLines(lines) == {k \in KeyLines(lines) : lines[k].parsable}
LastOf(S) == CHOOSE k \in S : \A j \in S : j <= k

\* The tick's samples are in the cache and the poller sleeps.
TickWritten == pollPc = "sleep"

\* C15: when the scrape of backend B failed in a tick, the scrape of every
\* other backend B' was issued all the same and can end on its own, and after
\* the tick's write the entry of B' is the sample of B''s own scrape.
C15_FailureLeavesOthersAlone ==
    \A j \in DOMAIN tasks, i \in DOMAIN tasks :
        (j # i /\ tasks[j].pc = "done" /\ ScrapeFailed(tasks[j].scrape))
        => /\ tasks[i].pc \in {"pending", "done"}
           /\ tasks[i].pc = "pending" => ENABLED ScrapeCompletes(i, ScrapeError)
           /\ TickWritten =>
                 /\ endpoints[i] \in DOMAIN endpoint_metrics
                 /\ endpoint_metrics[endpoints[i]] = tasks[i].metrics
                 /\ tasks[i].metrics.endpoint = endpoints[i]
                 /\ tasks[i].metrics.healthy = ~ScrapeFailed(tasks[i].scrape)

\* C15 witness: a tick in which the scrape of the first backend failed and
\* the second one reported a queue of 1 has been written, and the entry of
\* the second backend says 1, healthy.
C15_Witness ==
    /\ TickWritten
    /\ Len(endpoints) = 2
    /\ tasks[1].scrape = ScrapeError
    /\ tasks[2].scrape = ScrapeStatus(200, <<WaitingLine(1)>>)
    /\ endpoint_metrics[endpoints[2]].queue_depth = 1
    /\ endpoint_metrics[endpoints[2]].healthy
    /\ ~endpoint_metrics[endpoints[1]].healthy

\* C16: a scrape of B that is still running does not delay the update of
\* another backend B': as soon as the scrape of B' has ended its sample is
\* in the cache.
C16_SampleVisibleWhileOtherScrapeRuns ==
    \A j \in DOMAIN tasks, i \in DOMAIN tasks :
        (pollPc = "gather" /\ tasks[j].pc = "pending" /\ tasks[i].pc = "done")
        => /\ endpoints[i] \in DOMAIN endpoint_metrics
           /\ endpoint_metrics[endpoints[i]] = tasks[i].metrics

\* C17: after a tick, the entry of a backend is {+inf, unhealthy} if and only
\* if its scrape failed or was malformed, a 200 whose text has no
\* queue-depth line with a parsable value.
C17_MalformedScrapeIsUnhealthy ==
    TickWritten =>
        \A i \in DOMAIN tasks :
            LET scrape == tasks[i].scrape
                entry == endpoint_metrics[endpoints[i]]
            IN (entry.queue_depth = INF /\ ~entry.healthy)
               <=> (ScrapeFailed(scrape) \/ ParsableKeyLines(scrape.lines) = {})

\* C18: after a tick, the entry of a backend whose scrape failed is
\* {+inf, unhealthy}; the entry of one whose scrape returned 200 with a
\* parsable queue-depth line is {the value of the last such line, healthy};
\* either way the entry is the new sample, whatever was there before.
C18_EntryFollowsScrape ==
    TickWritten =>
        \A i \in DOMAIN tasks :
            LET scrape == tasks[i].scrape IN
            /\ endpoints[i] \in DOMAIN endpoint_metrics
            /\ endpoint_metrics[endpoints[i]].timestamp = tasks[i].metrics.timestamp
            /\ ScrapeFailed(scrape) =>
                  /\ endpoint_metrics[endpoints[i]].queue_depth = INF
                  /\ ~endpoint_metrics[endpoints[i]].healthy
            /\ (~ScrapeFailed(scrape) /\ ParsableKeyLines(scrape.lines) # {}) =>
                  /\ endpoint_metrics[endpoints[i]].queue_depth
                        = scrape.lines[LastOf(ParsableKeyLines(scrape.lines))].value
                  /\ endpoint_metrics[endpoints[i]].healthy

\* C18 witness: a tick has been written in which the first backend answered
\* 503 at time 0 and the second 200 with two queue-depth lines at time 1; the
\* entries are {+inf, unhealthy, 0} and {2, healthy, 1}.
C18_Witness ==
    /\ TickWritten
    /\ Len(endpoints) = 2
    /\ tasks[1].scrape = ScrapeStatus(503, <<WaitingLine(1)>>)
    /\ tasks[2].scrape = ScrapeStatus(200, <<WaitingLine(1), WaitingLine(2)>>)
    /\ endpoint_metrics[endpoints[1]].queue_depth = INF
    /\ ~endpoint_metrics[endpoints[1]].healthy
    /\ endpoint_metrics[endpoints[1]].timestamp = 0
    /\ endpoint_metrics[endpoints[2]].queue_depth = 2
    /\ endpoint_metrics[endpoints[2]].healthy
    /\ endpoint_metrics[endpoints[2]].timestamp = 1

\* C19: when the queue-depth line of a scrape is malformed (the key is
\* there, its value is no number) the tick's write leaves the backend's
\* entry as it was, or at the unhealthy default if it had none.
C19_MalformedLineKeepsPriorEntry ==
    [][\A i \in DOMAIN tasks :
          (/\ pollPc = "gather" /\ pollPc' = "sleep"
           /\ ~ScrapeFailed(tasks[i].scrape)
           /\ KeyLines(tasks[i].scrape.lines) # {}
           /\ ParsableKeyLines(tasks[i].scrape.lines) = {})
          => /\ endpoints[i] \in DOMAIN endpoint_metrics'
             /\ IF endpoints[i] \in DOMAIN endpoint_metrics
                THEN endpoint_metrics'[endpoints[i]] = endpoint_metrics[endpoints[i]]
                ELSE /\ endpoint_metrics'[endpoints[i]].queue_depth = INF
                     /\ ~endpoint_metrics'[endpoints[i]].healthy]_vars

\* ----------------------------------------------------- system specification
\* The managed load balancer as a whole: the poller runs for ever beside the
\* request handlers while backends go down and come back. The inputs are
\* request bodies without a model (with one, fewer than six backends end in
\* IndexError) or unreadable, a backend that refuses the connection or answers
\* 200 with a JSON document or with two chunks of an event stream, and a
\* scrape that fails or reports a queue of 0 or 1.
SystemBodies ==
    {MalformedBody, ObjectBody(NoneArg, StreamAbsent), ObjectBody(NoneArg, "true")}
SystemReplies ==
    {ReplyError("ConnectError"),
     ReplyResponse(200, "application/json", << <<"J1">> >>),
     ReplyResponse(200, "text/event-stream", << <<"data: 1">>, <<"data: 2">> >>)}
SystemScrapes ==
    {ScrapeError, ScrapeStatus(200, <<CommentLine, WaitingLine(0)>>),
     ScrapeStatus(200, <<WaitingLine(1)>>)}

InitSystem == InitPoller

NextSystem ==
    \/ TickStarts
    \/ \E i \in 1..MaxPolledEndpoints, scrape \in SystemScrapes : ScrapeCompletes(i, scrape)
    \/ WriteCache
    \/ \E i \in DOMAIN endpoints : BackendGoesDown(endpoints[i])
    \/ \E i \in DOMAIN endpoints : BackendComesUp(endpoints[i])
    \/ \E r \in RequestIds :
        \/ \E body \in SystemBodies : ReceiveRequest(r, body)
        \/ ParseFails(r)
        \/ SelectManaged(r)
        \/ \E reply \in SystemReplies : BackendResponds(r, reply)
        \/ BackendSendsChunk(r)
        \/ \E reply \in SystemReplies : ForwardReturns(r, reply)
        \/ StreamChunk(r)

\* The sleep of the poller ends, every scrape ends (the GET has a timeout of
\* 5 s), and the poller runs again once gather can return.
FairPoller ==
    /\ WF_vars(TickStarts)
    /\ WF_vars(WriteCache)
    /\ \A i \in 1..MaxPolledEndpoints :
          WF_vars(\E scrape \in SystemScrapes : ScrapeCompletes(i, scrape))

SpecSystem == InitSystem /\ [][NextSystem]_vars /\ FairPoller

\* ------------------------------------------------------------- system claim
\* The backends of the largest configuration.
PolledAddresses == {AddressPool[i] : i \in 1..MaxPolledEndpoints}

\* The cache marks the backend unhealthy.
Unhealthy(e) == e \in DOMAIN endpoint_metrics /\ ~endpoint_metrics[e].healthy

\* The tick in flight holds a healthy sample of the backend, not yet written.
HealthySampleWaiting(e) ==
    /\ pollPc = "gather"
    /\ \E i \in DOMAIN tasks :
          endpoints[i] = e /\ tasks[i].pc = "done" /\ tasks[i].metrics.healthy

\* The unreachable backend is marked unhealthy and nothing is on its way
\* that would mark it healthy.
MarkedUnhealthy(e) == e \in down /\ Unhealthy(e) /\ ~HealthySampleWaiting(e)

\* The tick in flight will mark the unreachable backend unhealthy.
TickWillMark(e) == e \in down /\ pollPc = "gather" /\ ~HealthySampleWaiting(e)

\* C20: an unreachable backend is eventually marked unhealthy in the Load
\* Cache unless it comes back first; the tick that starts while it is
\* unreachable marks it when it ends, and once marked it stays marked for as
\* long as it stays unreachable. A request forwarded to it ends in a 500.
C20_UnreachableBecomesUnhealthy ==
    /\ \A e \in PolledAddresses :
          (e \in down) ~> (e \notin down \/ MarkedUnhealthy(e))
    /\ [][\A e \in PolledAddresses :
            (e \in down /\ e \in down') =>
               /\ MarkedUnhealthy(e) => MarkedUnhealthy(e)'
               /\ TickWillMark(e) => (TickWillMark(e)' \/ MarkedUnhealthy(e)')
               /\ (pollPc # "gather" /\ pollPc' = "gather") => TickWillMark(e)']_vars
    /\ [][\A r \in RequestIds :
            (/\ requests[r].pc = "forward"
             /\ requests[r].upstream = NoReply
             /\ requests[r].endpoint \in down
             /\ requests'[r].pc # "forward")
            => /\ requests'[r].pc = "done"
               /\ Len(requests'[r].responses) = 1
               /\ requests'[r].responses[1].status = 500]_vars

\* C20 witness: a request was forwarded to a backend that refused the
\* connection and got a 500; the backend is still unreachable, a tick has
\* been written since, and the cache marks the backend unhealthy.
C20_Witness ==
    \E r \in RequestIds :
        /\ requests[r].pc = "done"
        /\ requests[r].raised = "ConnectError"
        /\ requests[r].responses[1].status = 500
        /\ requests[r].endpoint \in down
        /\ MarkedUnhealthy(requests[r].endpoint)
        /\ pollPc = "sleep"

\* ------------------------------------------------------------------ readers
\* Mutant: the managed health call counts the cache entries, healthy or not.
healthCountsEntries(var, eps, cache) ==
    IF var = Managed
    THEN LET healthy_count == Cardinality(DOMAIN cache)
         IN [call |-> "health",
             status |-> IF healthy_count > 0 THEN "healthy" ELSE "unhealthy",
             endpoints |-> Len(eps),
             healthy_endpoints |-> healthy_count]
    ELSE [call |-> "health", status |-> "healthy", endpoints |-> Len(eps)]

\* GET /health. Managed: healthy_count = sum(1 for m in
\* endpoint_metrics.values() if m.get("healthy", False)); baseline: a fixed
\* answer without a count.
health(var, eps, cache) ==
    IF var = Managed
    THEN LET healthy_count == Cardinality({a \in DOMAIN cache : cache[a].healthy})
         IN [call |-> "health",
             status |-> IF healthy_count > 0 THEN "healthy" ELSE "unhealthy",
             endpoints |-> Len(eps),
             healthy_endpoints |-> healthy_count]
    ELSE [call |-> "health", status |-> "healthy", endpoints |-> Len(eps)]

\* GET /metrics (managed): return endpoint_metrics. The dict is rendered as
\* JSON, which refuses float('inf'): 500 while any entry is at +inf.
metrics(cache) ==
    [call |-> "metrics",
     status |-> IF \E a \in DOMAIN cache : cache[a].queue_depth = INF THEN 500 ELSE 200,
     content |-> cache]

\* What the health and metrics handlers leave alone: everything but their
\* answer.
answerFrame == <<pollerVars, variant, endpoints, endpoint_metrics, model_iterators,
                 global_iterator, selected, ncalls, returned, requests>>

HealthCall ==
    /\ observed' = health(variant, endpoints, endpoint_metrics)
    /\ UNCHANGED answerFrame

MetricsCall ==
    /\ variant = Managed
    /\ observed' = metrics(endpoint_metrics)
    /\ UNCHANGED answerFrame

\* ---------------------------------------------------- health specification
\* Either load balancer answering health calls while its backends go down
\* and come back: the managed one with the poller running over the few
\* backends of the poller's lists, the baseline with the six backends its
\* constructor indexes.
InitHealth ==
    /\ variant \in {Managed, Baseline}
    /\ endpoints \in IF variant = Managed THEN PolledEndpoints
                     ELSE {SubSeq(AddressPool, 1, RegistryEndpoints)}
    /\ endpoint_metrics = NoCache
    /\ model_iterators = NoIterators
    /\ global_iterator = 0
    /\ selected = NoCall
    /\ ncalls = 0
    /\ returned = NoReturns
    /\ requests = [r \in RequestIds |-> IdleRequest]
    /\ PollerCreated
    /\ observed = NoObservation

NextHealth ==
    \/ TickStarts
    \/ \E i \in 1..MaxPolledEndpoints, scrape \in SystemScrapes : ScrapeCompletes(i, scrape)
    \/ WriteCache
    \/ \E i \in DOMAIN endpoints : BackendGoesDown(endpoints[i])
    \/ \E i \in DOMAIN endpoints : BackendComesUp(endpoints[i])
    \/ HealthCall

SpecHealth == InitHealth /\ [][NextHealth]_vars

\* ------------------------------------------------------------ health claim
HealthyEntries == Cardinality({e \in DOMAIN endpoint_metrics : endpoint_metrics[e].healthy})

\* C21: the answer of a managed health call has healthy_endpoints equal to
\* the number of cache entries flagged healthy, endpoints equal to the
\* number of configured backends, and status "healthy" exactly when that
\* number is above zero; the baseline answers "healthy" whatever backends
\* are down.
C21_HealthAnswer ==
    [][(observed' # observed /\ observed'.call = "health") =>
          /\ observed'.endpoints = Len(endpoints)
          /\ variant = Managed =>
                /\ observed'.healthy_endpoints = HealthyEntries
                /\ observed'.status \in {"healthy", "unhealthy"}
                /\ (observed'.status = "healthy") <=> (HealthyEntries > 0)
          /\ variant = Baseline => observed'.status = "healthy"]_vars

\* C21 witness: with two backends, one entry healthy and one not, the managed
\* health call has answered healthy, 2 endpoints, 1 of them healthy.
C21_Witness ==
    /\ variant = Managed
    /\ Len(endpoints) = 2
    /\ HealthyEntries = 1
    /\ DOMAIN endpoint_metrics = {endpoints[1], endpoints[2]}
    /\ observed = [call |-> "health", status |-> "healthy",
                   endpoints |-> 2, healthy_endpoints |-> 1]

\* ------------------------------------------------ poller loop specification
\* Mutant: an exception of the tick leaves the loop and ends the task.
TickRaisesEscapes(k) ==
    /\ pollPc = "gather"
    /\ \A i \in DOMAIN tasks : tasks[i].pc = "done"
    /\ k \in 0..Len(tasks)
    /\ endpoint_metrics' =
          WriteResults(endpoint_metrics,
                       [i \in 1..k |-> tasks[i].metrics], 1)
    /\ pollPc' = "stopped"
    /\ UNCHANGED <<handlerVars, tasks, clock, down>>

\* except Exception: a statement of the try block raises after gather has
\* returned, when k results have been written; the error is logged and the
\* poller goes on to the sleep.
TickRaises(k) ==
    /\ pollPc = "gather"
    /\ \A i \in DOMAIN tasks : tasks[i].pc = "done"
    /\ k \in 0..Len(tasks)
    /\ endpoint_metrics' =
          WriteResults(endpoint_metrics,
                       [i \in 1..k |-> tasks[i].metrics], 1)
    /\ pollPc' = "sleep"
    /\ UNCHANGED <<handlerVars, tasks, clock, down>>

NextPollerLoop ==
    \/ TickStarts
    \/ \E i \in 1..MaxPolledEndpoints, scrape \in SystemScrapes : ScrapeCompletes(i, scrape)
    \/ WriteCache
    \/ \E k \in 0..MaxPolledEndpoints : TickRaises(k)
    \/ \E i \in DOMAIN endpoints : BackendGoesDown(endpoints[i])
    \/ \E i \in DOMAIN endpoints : BackendComesUp(endpoints[i])

\* The poller task is scheduled whenever it can run: the sleep elapses, each
\* GET ends (answer, error or its 5 s timeout), gather returns.
SpecPollerLoop == InitPoller /\ [][NextPollerLoop]_vars /\ FairPoller

\* ------------------------------------------------------- poller loop claim
\* C23: the polling loop never ends: every tick, whether its scrapes
\* succeeded or failed or the tick raised, is followed by the sleep, every
\* sleep by a new tick, and ticks start again and again for ever.
C23_PollerLoopsForever ==
    /\ [](pollPc \in {"start", "gather", "sleep"})
    /\ (pollPc = "gather") ~> (pollPc = "sleep")
    /\ (pollPc = "sleep") ~> (pollPc = "gather")
    /\ []<>(pollPc = "gather")

\* C23 witness: the poller sleeps after a tick with a failed scrape that
\* raised when one of its two results had been written.
C23_Witness ==
    /\ pollPc = "sleep"
    /\ Len(endpoints) = 2
    /\ DOMAIN endpoint_metrics = {endpoints[1]}
    /\ tasks[2].pc = "done"
    /\ ~tasks[2].metrics.healthy

\* --------------------------------------------------- readers specification
\* The poller beside the readers of the cache: health, metrics, and a
\* proxy_request whose backend refuses the connection or answers 200.
\* The scrapes fail or report a queue of 1.
ReaderBodies == {ObjectBody(NoneArg, StreamAbsent)}
ReaderReplies ==
    {ReplyError("ConnectError"), ReplyResponse(200, "application/json", << <<"J1">> >>)}
ReaderScrapes == {ScrapeError, ScrapeStatus(200, <<WaitingLine(1)>>)}

NextReaders ==
    \/ TickStarts
    \/ \E i \in 1..MaxPolledEndpoints, scrape \in ReaderScrapes : ScrapeCompletes(i, scrape)
    \/ WriteCache
    \/ HealthCall
    \/ MetricsCall
    \/ \E r \in RequestIds :
        \/ \E body \in ReaderBodies : ReceiveRequest(r, body)
        \/ SelectManaged(r)
        \/ \E reply \in ReaderReplies : BackendResponds(r, reply)
        \/ BackendSendsChunk(r)
        \/ \E reply \in ReaderReplies : ForwardReturns(r, reply)

SpecReaders == InitPoller /\ [][NextReaders]_vars

\* ----------------------------------------------------------- readers claims
\* The sample task i of the running tick returned for backend e.
SampleOfTick(e) ==
    {tasks[i].metrics : i \in {j \in DOMAIN tasks : endpoints[j] = e /\ tasks[j].pc = "done"}}

\* C24: every step leaves each cache entry either as it was or replaced by
\* the whole sample one scrape returned, never by a mix of the two; and what
\* a reader gets (the metrics call's content, the health call's count, the
\* selector's choice) is computed from the cache of one moment.
C24_WholeSampleWrites ==
    [][/\ \A e \in DOMAIN endpoint_metrics' :
             \/ e \in DOMAIN endpoint_metrics /\ endpoint_metrics'[e] = endpoint_metrics[e]
             \/ endpoint_metrics'[e] \in SampleOfTick(e)
       /\ (observed' # observed /\ observed'.call = "metrics") =>
             observed'.content = endpoint_metrics
       /\ (observed' # observed /\ observed'.call = "health") =>
             observed'.healthy_endpoints = HealthyEntries
       /\ ncalls' # ncalls =>
             selected'.result =
                 get_best_endpoint(endpoints, endpoint_metrics, selected'.model)]_vars

\* C24 witness: a metrics call returned the samples of one tick, and a later
\* tick has replaced a backend's sample by one with another flag and depth.
C24_Witness ==
    /\ pollPc = "sleep"
    /\ observed.call = "metrics"
    /\ DOMAIN observed.content = DOMAIN endpoint_metrics
    /\ \E e \in DOMAIN endpoint_metrics :
          /\ observed.content[e].healthy
          /\ observed.content[e].queue_depth = 1
          /\ endpoint_metrics[e] = [endpoint |-> e, queue_depth |-> INF,
                                    timestamp |-> 0, healthy |-> FALSE]

\* C25: a step of a handler (proxy_request with its selector call, on
\* success and on failure, the health call, the metrics call) leaves the
\* cache as it was; the cache changes only in the poller's write.
C25_OnlyPollerWrites ==
    [][/\ (requests' # requests \/ selected' # selected \/ ncalls' # ncalls
             \/ observed' # observed) => endpoint_metrics' = endpoint_metrics
       /\ endpoint_metrics' # endpoint_metrics =>
             pollPc = "gather" /\ pollPc' = "sleep"]_vars

\* C25 witness: a forward to a backend failed with a connection error and
\* the entry of that backend still says healthy with a queue of 1.
C25_Witness ==
    \E r \in RequestIds :
        /\ requests[r].pc = "done"
        /\ requests[r].raised = "ConnectError"
        /\ requests[r].endpoint \in DOMAIN endpoint_metrics
        /\ endpoint_metrics[requests[r].endpoint].healthy
        /\ endpoint_metrics[requests[r].endpoint].queue_depth = 1

\* C27: the cache changes only in the one step that ends a tick, and that
\* step installs the sample of every configured backend; a selector call is
\* one step that reads the cache and leaves it alone, so it compares samples
\* of one tick only.
C27_TickInstalledAtOnce ==
    [][/\ endpoint_metrics' # endpoint_metrics =>
             /\ pollPc = "gather" /\ pollPc' = "sleep"
             /\ DOMAIN endpoint_metrics' = {endpoints[i] : i \in DOMAIN endpoints}
             /\ \A i \in DOMAIN endpoints :
                    /\ tasks[i].pc = "done"
                    /\ endpoint_metrics'[endpoints[i]] = tasks[i].metrics
       /\ ncalls' # ncalls =>
             /\ endpoint_metrics' = endpoint_metrics
             /\ tasks' = tasks /\ pollPc' = pollPc]_vars

\* C27 witness: a selector call has chosen the first backend on its sample
\* of the last tick while the running tick already holds a failed scrape of
\* that backend and still waits for the scrape of the second.
C27_Witness ==
    /\ Len(endpoints) = 2
    /\ pollPc = "gather"
    /\ tasks[1].pc = "done" /\ ~tasks[1].metrics.healthy
    /\ tasks[2].pc = "pending"
    /\ DOMAIN endpoint_metrics = {endpoints[1], endpoints[2]}
    /\ endpoint_metrics[endpoints[1]].healthy
    /\ ~endpoint_metrics[endpoints[2]].healthy
    /\ ncalls = 1
    /\ selected.result = endpoints[1]

\* --------------------------------------------- cold selector specification
\* get_best_endpoint as a function of the dict it reads: the six backends of
\* the registry, and a dict that holds a sample for any part of them - a
\* failed scrape, a queue of 0 or a queue of 1 - and nothing for the rest.
ColdScrapes ==
    {ScrapeError,
     ScrapeStatus(200, <<WaitingLine(0)>>),
     ScrapeStatus(200, <<WaitingLine(1)>>)}

InitSelectorCold ==
    /\ endpoints = SubSeq(AddressPool, 1, RegistryEndpoints)
    /\ \E scrapes \in [1..Len(endpoints) -> ColdScrapes],
          scraped \in SUBSET {endpoints[i] : i \in 1..Len(endpoints)} :
             endpoint_metrics = [e \in scraped |-> TickCache(endpoints, scrapes, 1)[e]]
    /\ selected = NoCall
    /\ ncalls = 0
    /\ variant = Managed
    /\ model_iterators = NoIterators
    /\ global_iterator = 0
    /\ returned = NoReturns
    /\ requests = [r \in RequestIds |-> IdleRequest]
    /\ PollerCreated
    /\ observed = NoObservation

SpecSelectorCold == InitSelectorCold /\ [][NextSelector]_vars

\* -------------------------------------------------- cold selector claim
\* The cache with {queue_depth: +inf, healthy: false} written for every
\* configured backend it has no entry for.
FilledCache ==
    [e \in {endpoints[i] : i \in DOMAIN endpoints} |->
        IF e \in DOMAIN endpoint_metrics THEN endpoint_metrics[e]
        ELSE [endpoint |-> e, queue_depth |-> INF, timestamp |-> 0, healthy |-> FALSE]]

\* The candidates of the last call.
CandidatesOfCall ==
    IF ~Truthy(selected.model) THEN endpoints
    ELSE IF selected.model \in RegisteredModels THEN Replicas(selected.model)
    ELSE SubSeq(endpoints, 1, DefaultCandidates)

\* C26: a selector call returns what it would return if every backend
\* without a cache entry had the entry {+inf, unhealthy}; a backend without
\* an entry is returned only as the first candidate and only when no
\* candidate has a finite depth.
C26_MissingEntryIsInfinite ==
    selected # NoCall =>
        /\ selected.result = get_best_endpoint(endpoints, FilledCache, selected.model)
        /\ selected.result \notin DOMAIN endpoint_metrics =>
              /\ selected.result = CandidatesOfCall[1]
              /\ \A i \in DOMAIN CandidatesOfCall :
                    CachedDepth(CandidatesOfCall[i]) = INF

\* C26 witness: the first replica of the model has no entry, the second has
\* a queue of 1, and the call returned the second.
C26_Witness ==
    /\ selected.model = Llama8B
    /\ endpoints[1] \notin DOMAIN endpoint_metrics
    /\ endpoints[2] \in DOMAIN endpoint_metrics
    /\ endpoint_metrics[endpoints[2]].queue_depth = 1
    /\ selected.result = endpoints[2]

\* ------------------------------------------------------------ cache claims
\* The configured backend addresses.
ConfiguredAddresses == {endpoints[i] : i \in DOMAIN endpoints}

\* C28: in every cache the poller leaves, an entry is unhealthy exactly when
\* its queue depth is +inf: none is healthy with an unknown depth, none
\* unhealthy with a finite one.
C28_UnhealthyIffInfinite ==
    \A e \in DOMAIN endpoint_metrics :
        (~endpoint_metrics[e].healthy) <=> (endpoint_metrics[e].queue_depth = INF)

\* C28 witness: a tick has written a healthy entry with a finite depth next
\* to an unhealthy one of depth +inf.
C28_Witness ==
    /\ Len(endpoints) = 2
    /\ DOMAIN endpoint_metrics = ConfiguredAddresses
    /\ endpoint_metrics[endpoints[1]].healthy
    /\ endpoint_metrics[endpoints[1]].queue_depth = 2
    /\ ~endpoint_metrics[endpoints[2]].healthy
    /\ endpoint_metrics[endpoints[2]].queue_depth = INF

\* C29: the keys of the cache are configured addresses, each entry filed
\* under its own address; the cache is empty until the first tick is
\* written, holds every configured backend from then on, and never loses
\* an entry.
C29_KeySet ==
    /\ [](/\ DOMAIN endpoint_metrics \subseteq ConfiguredAddresses
          /\ \A e \in DOMAIN endpoint_metrics : endpoint_metrics[e].endpoint = e
          /\ DOMAIN endpoint_metrics \in {{}, ConfiguredAddresses}
          /\ pollPc = "start" => DOMAIN endpoint_metrics = {}
          /\ pollPc = "sleep" => DOMAIN endpoint_metrics = ConfiguredAddresses)
    /\ [][/\ DOMAIN endpoint_metrics \subseteq DOMAIN endpoint_metrics'
          /\ DOMAIN endpoint_metrics' # DOMAIN endpoint_metrics =>
                pollPc = "gather" /\ pollPc' = "sleep"]_vars

\* C29 witness: the first tick is written; both backends have their entry,
\* the one whose scrape failed too, and a second tick is on its way.
C29_Witness ==
    /\ Len(endpoints) = 2
    /\ pollPc = "gather"
    /\ DOMAIN endpoint_metrics = ConfiguredAddresses
    /\ ~endpoint_metrics[endpoints[1]].healthy
    /\ endpoint_metrics[endpoints[2]].healthy
    /\ tasks[1].pc = "pending"

\* C30: a scrape is started only by a tick that begins when the poller has
\* not run yet or sleeps, when no scrape of the tick before is in flight and
\* its samples are in the cache; and the timestamp of a backend's entry
\* never goes back.
C30_TicksDoNotOverlap ==
    [][/\ \A i \in DOMAIN tasks' :
             (tasks'[i].pc = "pending" /\ tasks[i].pc # "pending") =>
                 /\ pollPc \in {"start", "sleep"}
                 /\ pollPc' = "gather"
                 /\ \A j \in DOMAIN tasks : tasks[j].pc # "pending"
                 /\ pollPc = "sleep" =>
                       \A j \in DOMAIN tasks :
                           endpoint_metrics[endpoints[j]] = tasks[j].metrics
       /\ \A e \in DOMAIN endpoint_metrics :
             /\ e \in DOMAIN endpoint_metrics'
             /\ endpoint_metrics'[e].timestamp >= endpoint_metrics[e].timestamp]_vars

\* C30 witness: the second tick is in flight: the cache holds the samples of
\* the first, taken at time 0, the scrape of the first backend has ended at
\* time 1 and the scrape of the second has not ended yet.
C30_Witness ==
    /\ Len(endpoints) = 2
    /\ pollPc = "gather"
    /\ DOMAIN endpoint_metrics = ConfiguredAddresses
    /\ endpoint_metrics[endpoints[1]].timestamp = 0
    /\ tasks[1].pc = "done"
    /\ tasks[1].metrics.timestamp = 1
    /\ tasks[2].pc = "pending"

====
